---------------------------- MODULE Spec2Model ----------------------------
(***************************************************************************)
(* A model of haze's request-templating and response-classification core:  *)
(*   - package reportable: parseRanges / isValueInRanges / IsReportable    *)
(*   - package http:       Parse and the copy-on-mutate With* operations   *)
(*   - package matchlang:  the state-machine parser Parser.consume / Parse *)
(* Go strings and byte slices are sequences of one-character strings.      *)
(***************************************************************************)
EXTENDS Integers, Sequences, FiniteSets, TLC

VARIABLES
    \* package reportable, ranges
    rtext,      \* the ranges text handed to parseRanges
    rtokens,    \* the tokens rtext was written from (<<>>: free text)
    ranges,     \* the []Range parseRanges returned
    rval,       \* the value handed to isValueInRanges
    rres,       \* what isValueInRanges returned
    rpc,        \* "start" | "parsed" | "queried"
    \* package reportable, IsReportable
    res,        \* the http.Response
    matchers,   \* []Matcher
    filters,    \* []Filter
    reportable, \* what IsReportable returned
    cpc,        \* "start" | "done"
    \* package http
    raw,        \* the captured raw request
    heap,       \* the Go maps in memory: map id -> map contents
    tmpl,       \* the template Request returned by Parse
    cur,        \* per worker: the Request its chain currently holds
    call,       \* per worker: the mutator call in progress
    calls,      \* number of mutator calls started so far
    hpc,        \* "unparsed" | "parsed"
    \* package matchlang
    tokens,     \* Parser.tokens
    pos,        \* Parser.pos
    state,      \* Parser.state
    ast,        \* Parser.ast
    outcome     \* "running" | "returned" | "panic"

varsRanges == <<rtext, rtokens, ranges, rval, rres, rpc>>
varsReportable == <<res, matchers, filters, reportable, cpc>>
varsHttp == <<raw, heap, tmpl, cur, call, calls, hpc>>
varsParser == <<tokens, pos, state, ast, outcome>>
vars == <<varsRanges, varsReportable, varsHttp, varsParser>>

----------------------------------------------------------------------------
(* Bounds of the model *)

MaxTokens == 2      \* tokens in a well-formed ranges text
MaxTextLen == 3     \* characters in a free ranges text
MaxValue == 13      \* largest value asked of isValueInRanges
MaxPreds == 2       \* matchers, and filters, handed to IsReportable
MaxCalls == 3       \* mutator calls over all workers
MaxTriples == 4     \* comparisons in a match expression
MaxFree == 4        \* tokens in a free token sequence

----------------------------------------------------------------------------
(* Go's strings / bytes / strconv functions, on sequences of characters *)

\* sub occurs in s at 0-based offset i
MatchAt(s, sub, i) ==
    /\ i + Len(sub) <= Len(s)
    /\ \A k \in 1..Len(sub) : s[i + k] = sub[k]

\* strings.Index / bytes.Index: offset of the first occurrence, -1 if none
Index(s, sub) ==
    IF \E i \in 0..Len(s) : MatchAt(s, sub, i)
    THEN CHOOSE i \in 0..Len(s) :
            /\ MatchAt(s, sub, i)
            /\ \A j \in 0..(i - 1) : ~MatchAt(s, sub, j)
    ELSE -1

\* s[i:] with a 0-based offset
SliceFrom(s, i) == SubSeq(s, i + 1, Len(s))

\* s[:i] with a 0-based offset
SliceTo(s, i) == SubSeq(s, 1, i)

\* strings.Split / bytes.Split with a non-empty separator
RECURSIVE Split(_, _)
Split(s, sep) ==
    LET i == Index(s, sep)
    IN  IF i < 0 THEN <<s>>
        ELSE <<SliceTo(s, i)>> \o Split(SliceFrom(s, i + Len(sep)), sep)

\* bytes.SplitN(s, sep, 2)
SplitN2(s, sep) ==
    LET i == Index(s, sep)
    IN  IF i < 0 THEN <<s>> ELSE <<SliceTo(s, i), SliceFrom(s, i + Len(sep))>>

\* strings.Replace(s, old, new, 1); an empty old matches at the start of s
Replace1(s, old, new) ==
    LET i == Index(s, old)
    IN  IF i < 0 THEN s
        ELSE SliceTo(s, i) \o new \o SliceFrom(s, i + Len(old))

\* strings.Replace(s, old, new, -1) with a non-empty old
RECURSIVE ReplaceAll(_, _, _)
ReplaceAll(s, old, new) ==
    LET i == Index(s, old)
    IN  IF i < 0 THEN s
        ELSE SliceTo(s, i) \o new \o ReplaceAll(SliceFrom(s, i + Len(old)), old, new)

IsSpace(c) == c \in {" ", "\t", "\n", "\r"}

\* strings.TrimSpace
RECURSIVE TrimSpace(_)
TrimSpace(s) ==
    IF s = <<>> THEN s
    ELSE IF IsSpace(s[1]) THEN TrimSpace(Tail(s))
    ELSE IF IsSpace(s[Len(s)]) THEN TrimSpace(SliceTo(s, Len(s) - 1))
    ELSE s

Digits == <<"0", "1", "2", "3", "4", "5", "6", "7", "8", "9">>

IsDigit(c) == \E i \in 1..10 : Digits[i] = c

DigitVal(c) == (CHOOSE i \in 1..10 : Digits[i] = c) - 1

RECURSIVE DecimalValue(_)
DecimalValue(s) ==
    IF s = <<>> THEN 0
    ELSE 10 * DecimalValue(SliceTo(s, Len(s) - 1)) + DigitVal(s[Len(s)])

\* strconv.Atoi with its error dropped: 0 on a syntax error (the texts of
\* the model are far shorter than the 19 digits where the value clamps)
Atoi(s) ==
    LET signed == s # <<>> /\ s[1] \in {"-", "+"}
        body == IF signed THEN Tail(s) ELSE s
    IN  IF body = <<>> \/ \E k \in 1..Len(body) : ~IsDigit(body[k])
        THEN 0
        ELSE IF signed /\ s[1] = "-" THEN 0 - DecimalValue(body)
        ELSE DecimalValue(body)

----------------------------------------------------------------------------
(* package reportable: ranges *)

Range(from, to) == [From |-> from, To |-> to]

\* for _, ran := range ranges { if val >= ran.From && val <= ran.To ... }
isValueInRanges_offByOne(rs, val) ==
    \E i \in 1..Len(rs) : val > rs[i].From /\ val <= rs[i].To

isValueInRanges(rs, val) ==
    \E i \in 1..Len(rs) : val >= rs[i].From /\ val <= rs[i].To

parseRange(val) ==
    LET splitted == Split(val, <<"-">>)
        from == Atoi(splitted[1])
    IN  IF Len(splitted) = 2
        THEN Range(from, Atoi(splitted[2]))
        ELSE Range(from, from)

parseRanges(val) ==
    LET toks == Split(val, <<",">>)
    IN  [i \in 1..Len(toks) |-> parseRange(toks[i])]

(* The ranges texts the model parses *)

\* decimal text of a natural number
RECURSIVE Itoa(_)
Itoa(n) ==
    IF n < 10 THEN <<Digits[n + 1]>>
    ELSE Itoa(n \div 10) \o <<Digits[(n % 10) + 1]>>

\* the numbers written in well-formed tokens
TokenNumbers == {0, 5, 12}

\* a token: a single integer c (pair = FALSE, a = b = c) or a pair a-b
RangeTokens ==
    {[pair |-> FALSE, a |-> c, b |-> c] : c \in TokenNumbers}
        \cup {[pair |-> TRUE, a |-> x, b |-> y] : x, y \in TokenNumbers}

FormatToken(t) ==
    IF t.pair THEN Itoa(t.a) \o <<"-">> \o Itoa(t.b) ELSE Itoa(t.a)

RECURSIVE FormatTokens(_)
FormatTokens(ts) ==
    IF Len(ts) = 1 THEN FormatToken(ts[1])
    ELSE FormatToken(ts[1]) \o <<",">> \o FormatTokens(Tail(ts))

TokenLists == UNION {[1..n -> RangeTokens] : n \in 1..MaxTokens}

RangeChars == {"3", "5", "-", "x", ","}

FreeTexts == UNION {[1..n -> RangeChars] : n \in 0..MaxTextLen}

Values == (0 - 1)..MaxValue

InitRanges ==
    /\ \/ \E ts \in TokenLists : rtokens = ts /\ rtext = FormatTokens(ts)
       \/ \E t \in FreeTexts : rtokens = <<>> /\ rtext = t
    /\ ranges = <<>>
    /\ rval = 0
    /\ rres = FALSE
    /\ rpc = "start"

IdleRanges ==
    /\ rtext = <<>>
    /\ rtokens = <<>>
    /\ ranges = <<>>
    /\ rval = 0
    /\ rres = FALSE
    /\ rpc = "idle"

\* ranges := parseRanges(codes)
DoParseRanges ==
    /\ rpc = "start"
    /\ ranges' = parseRanges(rtext)
    /\ rpc' = "parsed"
    /\ UNCHANGED <<rtext, rtokens, rval, rres>>
    /\ UNCHANGED <<varsReportable, varsHttp, varsParser>>

\* isValueInRanges(ranges, res.Code)
DoIsValueInRanges ==
    /\ rpc = "parsed"
    /\ \E v \in Values :
        /\ rval' = v
        /\ rres' = isValueInRanges(ranges, v)
    /\ rpc' = "queried"
    /\ UNCHANGED <<rtext, rtokens, ranges>>
    /\ UNCHANGED <<varsReportable, varsHttp, varsParser>>

NextRanges ==
    \/ DoParseRanges
    \/ DoIsValueInRanges

----------------------------------------------------------------------------
(* package reportable: matchers, filters and IsReportable *)

Responses == {[Code |-> c, Length |-> l] : c \in {200, 404}, l \in {0, 12}}

\* a Matcher or Filter closure is the function it computes on responses
MatchCodes(codes) ==
    LET rs == parseRanges(codes)
    IN  [r \in Responses |-> isValueInRanges(rs, r.Code)]

MatchLengths(lens) ==
    LET rs == parseRanges(lens)
    IN  [r \in Responses |-> isValueInRanges(rs, r.Length)]

FilterCodes(codes) ==
    LET rs == parseRanges(codes)
    IN  [r \in Responses |-> ~isValueInRanges(rs, r.Code)]

FilterLengths(lens) ==
    LET rs == parseRanges(lens)
    IN  [r \in Responses |-> ~isValueInRanges(rs, r.Length)]

CodeTexts == {<<"2", "0", "0">>, <<"4", "0", "0", "-", "4", "9", "9">>}

LengthTexts == {<<"0">>, <<"1", "0", "-", "2", "0">>}

MatcherPool ==
    {MatchCodes(t) : t \in CodeTexts} \cup {MatchLengths(t) : t \in LengthTexts}

FilterPool ==
    {FilterCodes(t) : t \in CodeTexts} \cup {FilterLengths(t) : t \in LengthTexts}

\* for _, matcher := range matchers { if matcher(res) { matched = true; break } }
RECURSIVE matchedFrom(_, _, _)
matchedFrom(r, ms, i) ==
    IF i > Len(ms) THEN FALSE
    ELSE IF ms[i][r] THEN TRUE
    ELSE matchedFrom(r, ms, i + 1)

\* for _, filter := range filters { if !filter(res) { filtered = false; break } }
RECURSIVE filteredFrom(_, _, _)
filteredFrom(r, fs, i) ==
    IF i > Len(fs) THEN TRUE
    ELSE IF ~fs[i][r] THEN FALSE
    ELSE filteredFrom(r, fs, i + 1)

IsReportable_noEmptyCase(r, ms, fs) ==
    filteredFrom(r, fs, 1) /\ matchedFrom(r, ms, 1)

IsReportable(r, ms, fs) ==
    filteredFrom(r, fs, 1) /\ (matchedFrom(r, ms, 1) \/ Len(ms) = 0)

InitReportable ==
    /\ res \in Responses
    /\ matchers \in UNION {[1..n -> MatcherPool] : n \in 0..MaxPreds}
    /\ filters \in UNION {[1..n -> FilterPool] : n \in 0..MaxPreds}
    /\ reportable = FALSE
    /\ cpc = "start"

IdleReportable ==
    /\ res = [Code |-> 0, Length |-> 0]
    /\ matchers = <<>>
    /\ filters = <<>>
    /\ reportable = FALSE
    /\ cpc = "idle"

DoIsReportable ==
    /\ cpc = "start"
    /\ reportable' = IsReportable(res, matchers, filters)
    /\ cpc' = "done"
    /\ UNCHANGED <<res, matchers, filters>>
    /\ UNCHANGED <<varsRanges, varsHttp, varsParser>>

NextReportable == DoIsReportable

----------------------------------------------------------------------------
(* package matchlang: the parser *)

EqualsOperator == 0
NotEqualsOperator == 1

AndOperator == 0

CodeIdentifier == 0
SizeIdentifier == 1
TextIdentifier == 2

ParserConsumingState == 0
ParserConsumedLeftState == 1
ParserConsumedOperatorState == 2
ParserConsumedRightState == 3
ParserConsumedLogicalOperatorState == 4
ParserDoneState == 5

\* the token types of the lexer
TokenTypes ==
    {"CodeToken", "SizeToken", "TextToken", "EqualsToken", "NotEqualsToken",
     "LiteralToken", "AndToken"}

LexToken(type, value) == [Type |-> type, Value |-> value]

nilast == [node |-> "nil"]

Identifier(value) == [node |-> "Identifier", Value |-> value]

Literal(value) == [node |-> "Literal", Value |-> value]

Comparison(left, operator, right) ==
    [node |-> "Comparison", Operator |-> operator, Left |-> left, Right |-> right]

LogicalExpression(left, operator, right) ==
    [node |-> "LogicalExpression", Operator |-> operator, Left |-> left,
     Right |-> right]

lexTokenToOperator(token) ==
    CASE token.Type = "EqualsToken" -> EqualsOperator
      [] token.Type = "NotEqualsToken" -> NotEqualsOperator
      [] OTHER -> 0 - 1

lexTokenToIdentifier(token) ==
    Identifier(CASE token.Type = "CodeToken" -> CodeIdentifier
                 [] token.Type = "SizeToken" -> SizeIdentifier
                 [] token.Type = "TextToken" -> TextIdentifier
                 [] OTHER -> 0)

\* p.tokens[i] with Go's 0-based index
TokenAt(toks, i) == toks[i + 1]

\* an index expression p.tokens[i] that does not panic
InRange(toks, i) == 0 <= i /\ i < Len(toks)

\* the state chosen in case ParserConsumedRightState
afterRight_noMinusOne(toks, p) ==
    IF p < Len(toks) THEN ParserConsumingState ELSE ParserDoneState

afterRight_logical(toks, p) ==
    IF p < Len(toks) - 1
    THEN IF TokenAt(toks, p).Type = "AndToken"
         THEN ParserConsumedLogicalOperatorState
         ELSE ParserConsumingState
    ELSE ParserDoneState

afterRight(toks, p) ==
    IF p < Len(toks) - 1 THEN ParserConsumingState ELSE ParserDoneState

\* the Comparison literal built in case ParserConsumedRightState
comparisonAt_wrongRight(toks, p) ==
    Comparison(lexTokenToIdentifier(TokenAt(toks, p - 3)),
               lexTokenToOperator(TokenAt(toks, p - 2)),
               Literal(TokenAt(toks, p - 3).Value))

comparisonAt(toks, p) ==
    Comparison(lexTokenToIdentifier(TokenAt(toks, p - 3)),
               lexTokenToOperator(TokenAt(toks, p - 2)),
               Literal(TokenAt(toks, p - 1).Value))

(* The token sequences the model parses *)

AndTokens == {LexToken("AndToken", "and")}

\* the comparisons written in match expressions
TriplePool ==
    {<<LexToken("CodeToken", "code"), LexToken("EqualsToken", "=="),
       LexToken("LiteralToken", "200")>>,
     <<LexToken("SizeToken", "size"), LexToken("NotEqualsToken", "!="),
       LexToken("LiteralToken", "0")>>,
     <<LexToken("TextToken", "text"), LexToken("EqualsToken", "=="),
       LexToken("LiteralToken", "0")>>}

\* one token written between two comparisons
SeparatorPool == AndTokens \cup {LexToken("LiteralToken", "0")}

\* IDENT OP LITERAL repeated n times
RECURSIVE TripleSeqs(_)
TripleSeqs(n) ==
    IF n = 1 THEN TriplePool
    ELSE {s \o t : s \in TripleSeqs(n - 1), t \in TriplePool}

\* n comparisons with one token between each two
RECURSIVE SeparatedSeqs(_)
SeparatedSeqs(n) ==
    IF n = 1 THEN TriplePool
    ELSE {s \o <<a>> \o t : s \in SeparatedSeqs(n - 1), a \in SeparatorPool,
                            t \in TriplePool}

FreeTokens ==
    {LexToken("CodeToken", "code"), LexToken("SizeToken", "size"),
     LexToken("EqualsToken", "=="), LexToken("NotEqualsToken", "!="),
     LexToken("LiteralToken", "200"), LexToken("AndToken", "and")}

FreeSeqs == UNION {[1..n -> FreeTokens] : n \in 0..MaxFree}

\* parser := Parser{tokens: lex(s), pos: 0, state: ParserConsumingState, ast: nilast}
InitParser ==
    /\ tokens \in FreeSeqs
                    \cup UNION {TripleSeqs(n) : n \in 1..MaxTriples}
                    \cup UNION {SeparatedSeqs(n) : n \in 1..MaxTriples}
    /\ pos = 0
    /\ state = ParserConsumingState
    /\ ast = nilast
    /\ outcome = "running"

IdleParser ==
    /\ tokens = <<>>
    /\ pos = 0
    /\ state = ParserConsumingState
    /\ ast = nilast
    /\ outcome = "idle"

\* consume() in a state that only advances
consumeAdvance ==
    /\ outcome = "running"
    /\ state \in {ParserConsumingState, ParserConsumedLeftState,
                  ParserConsumedOperatorState}
    /\ state' = state + 1
    /\ pos' = pos + 1
    /\ UNCHANGED <<tokens, ast, outcome>>
    /\ UNCHANGED <<varsRanges, varsReportable, varsHttp>>

\* consume() in ParserConsumedRightState, every index in range
consumeRight ==
    /\ outcome = "running"
    /\ state = ParserConsumedRightState
    /\ \A i \in {pos - 3, pos - 2, pos - 1} : InRange(tokens, i)
    /\ state' = afterRight(tokens, pos)
    /\ ast' = comparisonAt(tokens, pos)
    /\ pos' = pos + 1
    /\ UNCHANGED <<tokens, outcome>>
    /\ UNCHANGED <<varsRanges, varsReportable, varsHttp>>

\* consume() in ParserConsumedRightState, an index out of range: p.state is
\* already assigned when the index expression panics
consumeRightPanic ==
    /\ outcome = "running"
    /\ state = ParserConsumedRightState
    /\ \E i \in {pos - 3, pos - 2, pos - 1} : ~InRange(tokens, i)
    /\ state' = afterRight(tokens, pos)
    /\ outcome' = "panic"
    /\ UNCHANGED <<tokens, pos, ast>>
    /\ UNCHANGED <<varsRanges, varsReportable, varsHttp>>

\* consume() returns false in ParserDoneState and Parse returns parser.ast
parseReturn ==
    /\ outcome = "running"
    /\ state = ParserDoneState
    /\ outcome' = "returned"
    /\ UNCHANGED <<tokens, pos, state, ast>>
    /\ UNCHANGED <<varsRanges, varsReportable, varsHttp>>

consume ==
    \/ consumeAdvance
    \/ consumeRight
    \/ consumeRightPanic

NextParser ==
    \/ consume
    \/ parseReturn

----------------------------------------------------------------------------
(* package http: Request, Parse and the mutators *)

CRLF == <<"\r", "\n">>

sCookie == <<"C", "o", "o", "k", "i", "e">>

sHost == <<"H", "o", "s", "t">>

NoMap == [k \in {} |-> <<>>]

\* m[k] = v on a Go map
MapSet(m, k, v) == [x \in (DOMAIN m) \cup {k} |-> IF x = k THEN v ELSE m[x]]

\* delete(m, k)
MapDelete(m, k) == [x \in (DOMAIN m) \ {k} |-> m[x]]

parseRequestLine(requestLine) ==
    LET spaceSplitted == Split(requestLine, <<" ">>)
    IN  [method |-> spaceSplitted[1], requestUri |-> spaceSplitted[2],
         protocolVersion |-> spaceSplitted[3]]

parseRequestUri(requestUri) ==
    LET i == Index(requestUri, <<"?">>)
    IN  IF i > 0
        THEN [path |-> SliceTo(requestUri, i), query |-> SliceFrom(requestUri, i + 1)]
        ELSE [path |-> requestUri, query |-> <<>>]

parseHeader(rawHeader) ==
    LET colonSplitted == SplitN2(rawHeader, <<":">>)
    IN  [name |-> colonSplitted[1], val |-> TrimSpace(colonSplitted[2])]

\* the loop of parseHeaders over the lines after the request line
RECURSIVE headersFrom(_, _, _)
headersFrom(lines, i, headers) ==
    IF i > Len(lines) \/ Len(lines[i]) = 0 THEN headers
    ELSE LET h == parseHeader(lines[i])
         IN  headersFrom(lines, i + 1, MapSet(headers, h.name, h.val))

parseHeaders(rawReq) == headersFrom(Split(rawReq, CRLF), 2, NoMap)

extractBody(rawReq) ==
    LET twoRns == CRLF \o CRLF
    IN  SliceFrom(rawReq, Index(rawReq, twoRns) + Len(twoRns))

\* the loop of parseRawCookies
RECURSIVE cookiesFrom(_, _, _)
cookiesFrom(cs, i, cookies) ==
    IF i > Len(cs) THEN cookies
    ELSE LET key == Split(cs[i], <<"=">>)[1]
             val == Split(cs[i], <<"=">>)[2]
         IN  cookiesFrom(cs, i + 1,
                 MapSet(cookies, key, ReplaceAll(val, <<"\"">>, <<"%", "2", "2">>)))

parseRawCookies(cookies, rawCookies) ==
    cookiesFrom(Split(rawCookies, <<";", " ">>), 1, cookies)

\* Parse, with the two maps it builds given by their contents
Parse(bs) ==
    LET requestLine == Split(bs, CRLF)[1]
        line == parseRequestLine(requestLine)
        uri == parseRequestUri(line.requestUri)
        parsed == parseHeaders(bs)
        hasCookie == sCookie \in DOMAIN parsed
    IN  [Method |-> line.method, RequestUri |-> line.requestUri,
         Path |-> uri.path, Query |-> uri.query,
         ProtocolVersion |-> line.protocolVersion,
         Headers |-> IF hasCookie THEN MapDelete(parsed, sCookie) ELSE parsed,
         Cookies |-> IF hasCookie THEN parseRawCookies(NoMap, parsed[sCookie])
                     ELSE NoMap,
         Body |-> extractBody(bs)]

(* Memory: a Request holds its two maps by reference *)

Workers == {"w1", "w2"}

TemplateIds == [Headers |-> <<"tmpl", 0>>, Cookies |-> <<"tmpl", 1>>]

\* ids of worker w not yet in memory h: make(map[string]string) takes one
FreeIds(h, w) == {<<w, k>> : k \in 0..(3 * MaxCalls)} \ DOMAIN h

FreshId(h, w) ==
    CHOOSE id \in FreeIds(h, w) : \A o \in FreeIds(h, w) : id[2] <= o[2]

\* copyMap: [id |-> the map returned, heap |-> memory afterwards]
copyMap_alias(h, hs, w) == [id |-> hs, heap |-> h]

copyMap(h, hs, w) ==
    LET fresh == FreshId(h, w)
    IN  [id |-> fresh, heap |-> (fresh :> h[hs]) @@ h]

\* r.Clone(): [result |-> the Request returned, heap |-> memory afterwards]
Clone(h, r, w) ==
    LET hdrs == copyMap(h, r.Headers, w)
        cks == copyMap(hdrs.heap, r.Cookies, w)
    IN  [result |-> [r EXCEPT !.Headers = hdrs.id, !.Cookies = cks.id],
         heap |-> cks.heap]

\* a Request with its maps given by their contents in memory h
View(h, r) == [r EXCEPT !.Headers = h[r.Headers], !.Cookies = h[r.Cookies]]

(* The mutators after result := r.Clone():                                 *)
(* [result |-> the Request returned, heap |-> memory afterwards]           *)

WithPath(h, r, result, path) ==
    [result |-> [result EXCEPT !.RequestUri = Replace1(r.RequestUri, r.Path, path),
                               !.Path = path],
     heap |-> h]

WithQuery(h, r, result, query) ==
    [result |-> [result EXCEPT !.RequestUri = Replace1(r.RequestUri, r.Query, query),
                               !.Query = query],
     heap |-> h]

WithBody(h, r, result, body) ==
    [result |-> [result EXCEPT !.Body = body], heap |-> h]

WithHeader(h, r, result, key, val) ==
    [result |-> result,
     heap |-> [h EXCEPT ![result.Headers] = MapSet(@, key, val)]]

WithCookie(h, r, result, key, val) ==
    [result |-> result,
     heap |-> [h EXCEPT ![result.Cookies] = MapSet(@, key, val)]]

WithCookieString(h, r, result, val, w) ==
    LET fresh == FreshId(h, w)
    IN  [result |-> [result EXCEPT !.Cookies = fresh],
         heap |-> (fresh :> parseRawCookies(NoMap, val)) @@ h]

WithHeaderString(h, r, result, header) ==
    LET kv == parseHeader(header)
    IN  [result |-> result,
         heap |-> [h EXCEPT ![result.Headers] = MapSet(@, kv.name, kv.val)]]

(* The raw requests and mutator calls of the model *)

RequestUris ==
    {<<"/", "a">>, <<"/", "a", "?", "a">>, <<"/", "a", "?", "x", "=", "1">>}

CookieLines == {<<>>, sCookie \o <<":", " ", "a", "=", "1", ";", " ", "b", "=", "\"">> \o CRLF}

RawRequest(uri, cookieLine) ==
    <<"G", "E", "T", " ">> \o uri \o <<" ", "H", "T", "T", "P", "/", "1", ".", "1">>
        \o CRLF \o sHost \o <<":", " ", "h">> \o CRLF \o cookieLine \o CRLF

RawRequests == {RawRequest(u, c) : u \in RequestUris, c \in CookieLines}

Mutator(op, a, b) == [op |-> op, a |-> a, b |-> b]

Mutators ==
    {Mutator("WithPath", <<"/", "b">>, <<>>),
     Mutator("WithQuery", <<"y">>, <<>>),
     Mutator("WithBody", <<"z">>, <<>>),
     Mutator("WithHeader", sCookie, <<"c", "=", "2">>),
     Mutator("WithHeader", <<"X">>, <<"1">>),
     Mutator("WithCookie", <<"a">>, <<"2">>),
     Mutator("WithCookieString", <<"c", "=", "2">>, <<>>),
     Mutator("WithHeaderString", sCookie \o <<":", " ", "c", "=", "2">>, <<>>)}

\* the mutator m called on r, after result := r.Clone()
Apply(h, r, result, m, w) ==
    CASE m.op = "WithPath" -> WithPath(h, r, result, m.a)
      [] m.op = "WithQuery" -> WithQuery(h, r, result, m.a)
      [] m.op = "WithBody" -> WithBody(h, r, result, m.a)
      [] m.op = "WithHeader" -> WithHeader(h, r, result, m.a, m.b)
      [] m.op = "WithCookie" -> WithCookie(h, r, result, m.a, m.b)
      [] m.op = "WithCookieString" -> WithCookieString(h, r, result, m.a, w)
      [] m.op = "WithHeaderString" -> WithHeaderString(h, r, result, m.a)

NoRequest ==
    [Method |-> <<>>, RequestUri |-> <<>>, Path |-> <<>>, Query |-> <<>>,
     ProtocolVersion |-> <<>>, Headers |-> <<"none", 0>>, Cookies |-> <<"none", 0>>,
     Body |-> <<>>]

NoCall == [m |-> Mutator("none", <<>>, <<>>), recv |-> NoRequest, result |-> NoRequest]

InitHttp ==
    /\ raw \in RawRequests
    /\ heap = (<<"none", 0>> :> NoMap)
    /\ tmpl = NoRequest
    /\ cur = [w \in Workers |-> NoRequest]
    /\ call = [w \in Workers |-> NoCall]
    /\ calls = 0
    /\ hpc = "unparsed"

IdleHttp ==
    /\ raw = <<>>
    /\ heap = (<<"none", 0>> :> NoMap)
    /\ tmpl = NoRequest
    /\ cur = [w \in Workers |-> NoRequest]
    /\ call = [w \in Workers |-> NoCall]
    /\ calls = 0
    /\ hpc = "idle"

\* the template is parsed once and handed to every worker
ParseTemplate ==
    /\ hpc = "unparsed"
    /\ LET p == Parse(raw)
           t == [p EXCEPT !.Headers = TemplateIds.Headers,
                          !.Cookies = TemplateIds.Cookies]
       IN  /\ tmpl' = t
           /\ cur' = [w \in Workers |-> t]
           /\ heap' = (TemplateIds.Headers :> p.Headers)
                        @@ (TemplateIds.Cookies :> p.Cookies) @@ heap
    /\ hpc' = "parsed"
    /\ UNCHANGED <<raw, call, calls>>
    /\ UNCHANGED <<varsRanges, varsReportable, varsParser>>

\* worker w calls a mutator on the template or on its own latest clone;
\* the call has run result := r.Clone()
MutatorBegin(w) ==
    /\ hpc = "parsed"
    /\ call[w] = NoCall
    /\ calls < MaxCalls
    /\ \E r \in {tmpl, cur[w]}, m \in Mutators :
        LET c == Clone(heap, r, w)
        IN  /\ call' = [call EXCEPT ![w] = [m |-> m, recv |-> r, result |-> c.result]]
            /\ heap' = c.heap
    /\ calls' = calls + 1
    /\ UNCHANGED <<raw, tmpl, cur, hpc>>
    /\ UNCHANGED <<varsRanges, varsReportable, varsParser>>

\* the call of worker w changes its clone and returns it
MutatorEnd(w) ==
    /\ call[w] # NoCall
    /\ LET out == Apply(heap, call[w].recv, call[w].result, call[w].m, w)
       IN  /\ cur' = [cur EXCEPT ![w] = out.result]
           /\ heap' = out.heap
    /\ call' = [call EXCEPT ![w] = NoCall]
    /\ UNCHANGED <<raw, tmpl, calls, hpc>>
    /\ UNCHANGED <<varsRanges, varsReportable, varsParser>>

NextHttp ==
    \/ ParseTemplate
    \/ \E w \in Workers : MutatorBegin(w)
    \/ \E w \in Workers : MutatorEnd(w)

----------------------------------------------------------------------------
(* Specifications: one per package, the other packages idle *)

InitSpecRanges == InitRanges /\ IdleReportable /\ IdleHttp /\ IdleParser

InitSpecReportable == IdleRanges /\ InitReportable /\ IdleHttp /\ IdleParser

InitSpecHttp == IdleRanges /\ IdleReportable /\ InitHttp /\ IdleParser

InitSpecParser == IdleRanges /\ IdleReportable /\ IdleHttp /\ InitParser

SpecRanges == InitSpecRanges /\ [][NextRanges]_vars

SpecReportable == InitSpecReportable /\ [][NextReportable]_vars

SpecHttp == InitSpecHttp /\ [][NextHttp]_vars

SpecParser == InitSpecParser /\ [][NextParser]_vars

----------------------------------------------------------------------------
(* Properties *)

\* C1: IsReportable returns true exactly when every filter returns true for
\* the response and the matcher list is empty or some matcher returns true.
ReportableRule ==
    cpc = "done" =>
        reportable =
            (/\ \A i \in 1..Len(filters) : filters[i][res]
             /\ \/ Len(matchers) = 0
                \/ \E i \in 1..Len(matchers) : matchers[i][res])

\* C1 witness: no matchers and a single filter that returns true: reportable.
ReportableByFilterAlone ==
    /\ cpc = "done"
    /\ matchers = <<>>
    /\ Len(filters) = 1
    /\ filters[1][res]
    /\ reportable

AllRequests == {tmpl} \cup {cur[w] : w \in Workers}

\* C2: no step of any worker's mutator call changes the template, the
\* receiver of a call, the Request another worker holds, or the clone another
\* worker's call is building: every field and both maps keep their contents.
MutatorsLeaveRequestsUnchanged ==
    [][hpc = "parsed" =>
        /\ tmpl' = tmpl
        /\ \A r \in AllRequests : View(heap', r) = View(heap, r)
        /\ \A w \in Workers :
            call[w] # NoCall =>
                /\ View(heap', call[w].recv) = View(heap, call[w].recv)
                /\ call'[w] = call[w] =>
                    View(heap', call[w].result) = View(heap, call[w].result)]_vars

\* C2 witness: both workers have returned from a mutator call on the shared
\* template, one changed its headers and the other its cookies.
TwoWorkersDiverged ==
    /\ hpc = "parsed"
    /\ \A w \in Workers : call[w] = NoCall
    /\ View(heap, cur["w1"]).Headers # View(heap, tmpl).Headers
    /\ View(heap, cur["w2"]).Cookies # View(heap, tmpl).Cookies
    /\ View(heap, cur["w2"]).Headers = View(heap, tmpl).Headers

\* C3: in every Request, whenever Query is non-empty, RequestUri equals
\* Path + "?" + Query.
RequestUriConsistent ==
    hpc = "parsed" =>
        \A r \in AllRequests :
            r.Query # <<>> => r.RequestUri = r.Path \o <<"?">> \o r.Query

\* C4: the header map of a Request never contains the key "Cookie".
NoCookieHeader ==
    hpc = "parsed" =>
        \A r \in AllRequests : sCookie \notin DOMAIN heap[r.Headers]

TokenCovers(t, v) == IF t.pair THEN t.a <= v /\ v <= t.b ELSE v = t.a

Reorderings(ts) ==
    {[i \in 1..Len(ts) |-> ts[f[i]]] :
        f \in {g \in [1..Len(ts) -> 1..Len(ts)] :
                \A i, j \in 1..Len(ts) : g[i] = g[j] => i = j}}

\* C5: for a text of single-integer and pair tokens, isValueInRanges of the
\* parsed ranges is true exactly when the value equals a single token or lies
\* within a pair token, whatever the order of the tokens in the text.
RangesMembership ==
    (rpc = "queried" /\ rtokens # <<>>) =>
        /\ rres = (\E i \in 1..Len(rtokens) : TokenCovers(rtokens[i], rval))
        /\ \A ts \in Reorderings(rtokens) :
            isValueInRanges(parseRanges(FormatTokens(ts)), rval) = rres

\* C5 witness: a pair token and a single token, the value inside the pair.
ValueInsidePair ==
    /\ rpc = "queried"
    /\ Len(rtokens) = 2
    /\ rtokens[1].pair
    /\ ~rtokens[2].pair
    /\ rtokens[1].a < rval
    /\ rval < rtokens[1].b
    /\ rval # rtokens[2].a
    /\ rres

\* C6: every Range parseRanges produces has From <= To, and a token with no
\* dash yields From = To.
RangesOrdered ==
    rpc \in {"parsed", "queried"} =>
        \A i \in 1..Len(ranges) :
            /\ ranges[i].From <= ranges[i].To
            /\ Index(Split(rtext, <<",">>)[i], <<"-">>) < 0 =>
                ranges[i].From = ranges[i].To

IsIdent(t) == t.Type \in {"CodeToken", "SizeToken", "TextToken"}

IsOperator(t) == t.Type \in {"EqualsToken", "NotEqualsToken"}

IsLiteral(t) == t.Type = "LiteralToken"

\* toks[k..k+2] (0-based) is IDENT OP LITERAL
IsTripleAt(toks, k) ==
    /\ IsIdent(TokenAt(toks, k))
    /\ IsOperator(TokenAt(toks, k + 1))
    /\ IsLiteral(TokenAt(toks, k + 2))

\* IDENT OP LITERAL repeated n >= 1 times
IsTripleSeq(toks) ==
    /\ Len(toks) > 0
    /\ Len(toks) % 3 = 0
    /\ \A j \in 0..((Len(toks) \div 3) - 1) : IsTripleAt(toks, 3 * j)

\* n >= 1 triples IDENT OP LITERAL with one token between each two
IsSeparatedSeq(toks) ==
    /\ Len(toks) % 4 = 3
    /\ \A j \in 0..(Len(toks) \div 4) : IsTripleAt(toks, 4 * j)

\* the Comparison of the triple at toks[k..k+2]
TripleComparison(toks, k) ==
    Comparison(lexTokenToIdentifier(TokenAt(toks, k)),
               lexTokenToOperator(TokenAt(toks, k + 1)),
               Literal(TokenAt(toks, k + 2).Value))

\* C7, as claimed: for IDENT OP LITERAL repeated n >= 1 times Parse returns
\* the Comparison of the last triple.
ParseReturnsLastTriple ==
    (IsTripleSeq(tokens) /\ outcome # "running") =>
        /\ outcome = "returned"
        /\ ast = TripleComparison(tokens, Len(tokens) - 3)

\* C7, amended: for n >= 1 triples with exactly one token between each two,
\* Parse returns the Comparison of the last triple; each full cycle advances
\* the position by four (the triple and the token after it) and overwrites
\* the AST with the Comparison of the triple.
ParseReturnsLastSeparatedTriple ==
    IsSeparatedSeq(tokens) =>
        /\ outcome # "running" =>
            /\ outcome = "returned"
            /\ ast = TripleComparison(tokens, Len(tokens) - 3)
        /\ (state = ParserConsumingState /\ pos > 0) =>
            /\ pos % 4 = 0
            /\ ast = TripleComparison(tokens, pos - 4)

\* C7 witness: Parse has returned on three comparisons joined by two tokens.
ReturnedOnThreeSeparatedTriples ==
    /\ IsSeparatedSeq(tokens)
    /\ Len(tokens) = 11
    /\ outcome = "returned"
    /\ ast # TripleComparison(tokens, 0)

\* the indices of the tokens at or after position p
Unconsumed(toks, p) == {i \in 0..(Len(toks) - 1) : i >= p}

\* C8: a step from ConsumedRight leads to Consuming if a token is still
\* unconsumed after it and to Done otherwise; in Done no token is unconsumed.
RightStepChoosesNextState ==
    /\ [](state = ParserDoneState => Unconsumed(tokens, pos) = {})
    /\ [][(outcome = "running" /\ state = ParserConsumedRightState) =>
            IF Unconsumed(tokens', pos') # {}
            THEN state' = ParserConsumingState
            ELSE state' = ParserDoneState]_vars

\* C8 witness: back in Consuming after the first cycle, tokens remaining.
BackInConsuming ==
    /\ outcome = "running"
    /\ state = ParserConsumingState
    /\ pos = 4
    /\ Unconsumed(tokens, pos) # {}

\* C9: on an empty or truncated token sequence Parse ends in a syntax-error
\* outcome, and no run reads a token index out of range.
TruncatedInputIsSyntaxError ==
    /\ outcome # "panic"
    /\ ((Len(tokens) = 0 \/ Len(tokens) % 3 # 0) /\ outcome # "running") =>
            outcome = "syntax_error"

\* C10: the parser is never in ParserConsumedLogicalOperatorState and the AST
\* is the initial nil value or a Comparison, never a LogicalExpression.
NoLogicalExpression ==
    /\ state # ParserConsumedLogicalOperatorState
    /\ ast.node \in {"nil", "Comparison"}

\* C10 witness: Parse has returned a Comparison on two comparisons joined
\* by the AND token.
ReturnedComparisonOnAndInput ==
    /\ outcome = "returned"
    /\ IsSeparatedSeq(tokens)
    /\ Len(tokens) = 7
    /\ TokenAt(tokens, 3).Type = "AndToken"
    /\ ast.node = "Comparison"

=============================================================================
